---- MODULE Spec2Model ----
(***************************************************************************)
(* The account transaction state machine of transactor                    *)
(* (src/src/account.rs): one Account, the transactions applied to it by   *)
(* Account::transact, and the result each call returns.                   *)
(***************************************************************************)
EXTENDS Integers, Sequences, FiniteSets, TLC

\* Largest transaction id drawn as an input (ids are 0..MaxId).
MaxId == 1
\* Largest scaled amount drawn for a deposit or withdrawal (amounts are >= 0,
\* as the parser only lets through non-negative amounts).
MaxAmount == 2
\* Number of transactions applied in one run.
MaxSteps == 6
\* Largest id of the deposit/withdrawal-only runs of ChangeSpec (ids are 0..MaxChangeId).
MaxChangeId == 3

\* Largest client id of the ledger runs of LedgerSpec (clients are 0..MaxClient).
MaxClient == 1
\* Largest transaction id and largest amount on the input lines of LedgerSpec.
MaxLedgerId == 0
MaxLedgerAmount == 1
\* Number of input lines read in one run of LedgerSpec.
MaxLines == 3

\* Number of transactions applied in one run of OverflowSpec.
MaxWideSteps == 3

TransactionId == 0..MaxId
Amount == 0..MaxAmount
ChangeKind == {"Deposit", "Withdrawal"}
DisputeKind == {"Initiate", "Resolve", "Chargeback"}

\* transaction.rs: BalanceChange { kind, amount }
BalanceChange == [kind : ChangeKind, amount : Amount]

\* Transaction::Change { tx_id, change } as matched by Account::transact
TxChange(tx_id, kind, amount) ==
    [type |-> "Change", tx_id |-> tx_id,
     change |-> [kind |-> kind, amount |-> amount]]
\* Transaction::deposit / Transaction::withdrawal
TxDeposit(tx_id, amount) == TxChange(tx_id, "Deposit", amount)
TxWithdrawal(tx_id, amount) == TxChange(tx_id, "Withdrawal", amount)
\* Transaction::Dispute { kind, tx_id } as matched by Account::transact and
\* built by the tests (transaction.rs still declares the Dispute(id) /
\* Resolution { kind, tx_id } pair of an earlier iteration)
TxDispute(kind, tx_id) == [type |-> "Dispute", kind |-> kind, tx_id |-> tx_id]

\* Result<(), TransactionError>
Ok == [tag |-> "Ok"]
AccountFrozen == [tag |-> "AccountFrozen"]
InsufficentFunds(current, requested) ==
    [tag |-> "InsufficentFunds", current |-> current, requested |-> requested]
InvalidDispute == [tag |-> "InvalidDispute"]
UndisputedResolve == [tag |-> "UndisputedResolve"]
UndisputedChargback == [tag |-> "UndisputedChargback"]
DuplicateTransactionId(tx_id) ==
    [tag |-> "DuplicateTransactionId", tx_id |-> tx_id]

\* Amount arithmetic on the scaled i64 (amount.rs AddAssign / SubAssign / Add).
\* The amounts and run lengths drawn here keep every balance within
\* -MaxAmount * MaxSteps .. MaxAmount * MaxSteps, far inside the i64 range.
AddAssign(a, b) == a + b
SubAssign(a, b) == a - b
Add(a, b) == a + b

\* HashMap::contains_key / insert / remove on history
ContainsKey(history, k) == k \in DOMAIN history
Insert(history, k, v) ==
    [i \in (DOMAIN history) \cup {k} |-> IF i = k THEN v ELSE history[i]]
Remove(history, k) == [i \in (DOMAIN history) \ {k} |-> history[i]]

\* `if let Some(BalanceChange { kind: ChangeKind::Deposit, amount }) = history.get(&tx_id)`
IsDepositIn(history, tx_id) ==
    ContainsKey(history, tx_id) /\ history[tx_id].kind = "Deposit"

\* Account::default()
DefaultAccount ==
    [balance |-> 0, held |-> 0, frozen |-> FALSE,
     history |-> [i \in {} |-> [kind |-> "Deposit", amount |-> 0]],
     disputed |-> {}]

\* Account::total
Total(self) == Add(self.balance, self.held)

\* Deposit that a frozen account refuses
DepositRefusedWhenFrozen(self, tx_id, change) ==
    IF self.frozen
    THEN [acc |-> self, res |-> AccountFrozen]
    ELSE [acc |-> [self EXCEPT !.balance = AddAssign(@, change.amount),
                               !.history = Insert(@, tx_id, change)],
          res |-> Ok]

\* ChangeKind::Deposit arm
Deposit(self, tx_id, change) ==
    [acc |-> [self EXCEPT !.balance = AddAssign(@, change.amount),
                          !.history = Insert(@, tx_id, change)],
     res |-> Ok]

\* Withdrawal that records the transaction in history before the funds check
WithdrawalRecordsRefused(self, tx_id, change) ==
    IF self.frozen
    THEN [acc |-> self, res |-> AccountFrozen]
    ELSE IF self.balance >= change.amount
         THEN [acc |-> [self EXCEPT !.balance = SubAssign(@, change.amount),
                                    !.history = Insert(@, tx_id, change)],
               res |-> Ok]
         ELSE [acc |-> [self EXCEPT !.history = Insert(@, tx_id, change)],
               res |-> InsufficentFunds(self.balance, change.amount)]

\* Withdrawal without the frozen check
WithdrawalIgnoresFrozen(self, tx_id, change) ==
    IF self.balance >= change.amount
    THEN [acc |-> [self EXCEPT !.balance = SubAssign(@, change.amount),
                               !.history = Insert(@, tx_id, change)],
          res |-> Ok]
    ELSE [acc |-> self,
          res |-> InsufficentFunds(self.balance, change.amount)]

\* Withdrawal that debits the balance before the funds check
WithdrawalDebitsRefused(self, tx_id, change) ==
    IF self.frozen
    THEN [acc |-> self, res |-> AccountFrozen]
    ELSE IF self.balance >= change.amount
         THEN [acc |-> [self EXCEPT !.balance = SubAssign(@, change.amount),
                                    !.history = Insert(@, tx_id, change)],
               res |-> Ok]
         ELSE [acc |-> [self EXCEPT !.balance = SubAssign(@, change.amount)],
               res |-> InsufficentFunds(SubAssign(self.balance, change.amount),
                                        change.amount)]

\* Withdrawal that refuses to take the whole balance
WithdrawalStrict(self, tx_id, change) ==
    IF self.frozen
    THEN [acc |-> self, res |-> AccountFrozen]
    ELSE IF self.balance > change.amount
         THEN [acc |-> [self EXCEPT !.balance = SubAssign(@, change.amount),
                                    !.history = Insert(@, tx_id, change)],
               res |-> Ok]
         ELSE [acc |-> self,
               res |-> InsufficentFunds(self.balance, change.amount)]

\* ChangeKind::Withdrawal arm
Withdrawal(self, tx_id, change) ==
    IF self.frozen
    THEN [acc |-> self, res |-> AccountFrozen]
    ELSE IF self.balance >= change.amount
         THEN [acc |-> [self EXCEPT !.balance = SubAssign(@, change.amount),
                                    !.history = Insert(@, tx_id, change)],
               res |-> Ok]
         ELSE [acc |-> self,
               res |-> InsufficentFunds(self.balance, change.amount)]

\* Change without the duplicate check
ChangeOverwrites(self, tx_id, change) ==
    IF change.kind = "Deposit"
    THEN Deposit(self, tx_id, change)
    ELSE Withdrawal(self, tx_id, change)

\* Transaction::Change arm: duplicate check, then the kind
Change(self, tx_id, change) ==
    IF ContainsKey(self.history, tx_id)
    THEN [acc |-> self, res |-> DuplicateTransactionId(tx_id)]
    ELSE IF change.kind = "Deposit"
         THEN Deposit(self, tx_id, change)
         ELSE Withdrawal(self, tx_id, change)

\* Initiate that accepts any recorded transaction, deposit or withdrawal
InitiateAnyChange(self, tx_id) ==
    IF ContainsKey(self.history, tx_id)
    THEN [acc |-> [self EXCEPT
                      !.balance = SubAssign(@, self.history[tx_id].amount),
                      !.held = AddAssign(@, self.history[tx_id].amount),
                      !.disputed = @ \cup {tx_id}],
          res |-> Ok]
    ELSE [acc |-> self, res |-> InvalidDispute]

\* DisputeKind::Initiate arm
Initiate(self, tx_id) ==
    IF IsDepositIn(self.history, tx_id)
    THEN [acc |-> [self EXCEPT
                      !.balance = SubAssign(@, self.history[tx_id].amount),
                      !.held = AddAssign(@, self.history[tx_id].amount),
                      !.disputed = @ \cup {tx_id}],
          res |-> Ok]
    ELSE [acc |-> self, res |-> InvalidDispute]

\* Resolve that returns the funds to balance without releasing them from held
ResolveKeepsHeld(self, tx_id) ==
    IF tx_id \in self.disputed
    THEN LET removed == [self EXCEPT !.disputed = @ \ {tx_id}]
         IN  IF IsDepositIn(removed.history, tx_id)
             THEN [acc |-> [removed EXCEPT
                        !.balance = AddAssign(@, removed.history[tx_id].amount)],
                   res |-> Ok]
             ELSE [acc |-> removed, res |-> Ok]
    ELSE [acc |-> self, res |-> UndisputedResolve]

\* Resolve that looks the id up in history only, not in disputed
ResolveAnyDeposit(self, tx_id) ==
    LET removed == [self EXCEPT !.disputed = @ \ {tx_id}]
    IN  IF IsDepositIn(removed.history, tx_id)
        THEN [acc |-> [removed EXCEPT
                   !.balance = AddAssign(@, removed.history[tx_id].amount),
                   !.held = SubAssign(@, removed.history[tx_id].amount)],
              res |-> Ok]
        ELSE [acc |-> self, res |-> UndisputedResolve]

\* DisputeKind::Resolve arm: disputed.remove, then the funds
Resolve(self, tx_id) ==
    IF tx_id \in self.disputed
    THEN LET removed == [self EXCEPT !.disputed = @ \ {tx_id}]
         IN  IF IsDepositIn(removed.history, tx_id)
             THEN [acc |-> [removed EXCEPT
                        !.balance = AddAssign(@, removed.history[tx_id].amount),
                        !.held = SubAssign(@, removed.history[tx_id].amount)],
                   res |-> Ok]
             ELSE [acc |-> removed, res |-> Ok]
    ELSE [acc |-> self, res |-> UndisputedResolve]

\* Chargeback that leaves the charged-back deposit in history
ChargebackKeepsHistory(self, tx_id) ==
    IF tx_id \in self.disputed
    THEN LET removed == [self EXCEPT !.disputed = @ \ {tx_id}]
         IN  IF IsDepositIn(removed.history, tx_id)
             THEN [acc |-> [removed EXCEPT
                        !.held = SubAssign(@, removed.history[tx_id].amount),
                        !.frozen = TRUE],
                   res |-> Ok]
             ELSE [acc |-> removed, res |-> Ok]
    ELSE [acc |-> self, res |-> UndisputedChargback]

\* Chargeback that does not freeze the account
ChargebackNoFreeze(self, tx_id) ==
    IF tx_id \in self.disputed
    THEN LET removed == [self EXCEPT !.disputed = @ \ {tx_id}]
         IN  IF IsDepositIn(removed.history, tx_id)
             THEN [acc |-> [removed EXCEPT
                        !.held = SubAssign(@, removed.history[tx_id].amount),
                        !.history = Remove(@, tx_id)],
                   res |-> Ok]
             ELSE [acc |-> removed, res |-> Ok]
    ELSE [acc |-> self, res |-> UndisputedChargback]

\* Chargeback that tests disputed without removing the id from it
ChargebackLeavesDisputed(self, tx_id) ==
    IF tx_id \in self.disputed
    THEN IF IsDepositIn(self.history, tx_id)
         THEN [acc |-> [self EXCEPT
                    !.held = SubAssign(@, self.history[tx_id].amount),
                    !.frozen = TRUE,
                    !.history = Remove(@, tx_id)],
               res |-> Ok]
         ELSE [acc |-> self, res |-> Ok]
    ELSE [acc |-> self, res |-> UndisputedChargback]

\* DisputeKind::Chargeback arm: disputed.remove, then the funds, freeze, forget
Chargeback(self, tx_id) ==
    IF tx_id \in self.disputed
    THEN LET removed == [self EXCEPT !.disputed = @ \ {tx_id}]
         IN  IF IsDepositIn(removed.history, tx_id)
             THEN [acc |-> [removed EXCEPT
                        !.held = SubAssign(@, removed.history[tx_id].amount),
                        !.frozen = TRUE,
                        !.history = Remove(@, tx_id)],
                   res |-> Ok]
             ELSE [acc |-> removed, res |-> Ok]
    ELSE [acc |-> self, res |-> UndisputedChargback]

\* Account::transact
Transact(self, tx) ==
    IF tx.type = "Change"
    THEN Change(self, tx.tx_id, tx.change)
    ELSE IF tx.kind = "Initiate" THEN Initiate(self, tx.tx_id)
    ELSE IF tx.kind = "Resolve" THEN Resolve(self, tx.tx_id)
    ELSE Chargeback(self, tx.tx_id)

(***************************************************************************)
(* The ledger (Accounts) and the driver (process_transaction_source)      *)
(***************************************************************************)

ClientId == 0..MaxClient

\* Accounts::default(): no account
DefaultAccounts == [c \in {} |-> DefaultAccount]

\* Accounts::transact that creates the account only when the transaction returns Ok
AccountsTransactCreatesOnOk(accs, client_tx) ==
    LET entry == IF client_tx.client \in DOMAIN accs
                 THEN accs[client_tx.client] ELSE DefaultAccount
        r == Transact(entry, client_tx.tx)
    IN  IF client_tx.client \in DOMAIN accs \/ r.res = Ok
        THEN [accounts |-> [c \in (DOMAIN accs) \cup {client_tx.client} |->
                               IF c = client_tx.client THEN r.acc ELSE accs[c]],
              res |-> r.res]
        ELSE [accounts |-> accs, res |-> r.res]

\* Accounts::transact with one id space for the whole ledger: a deposit or
\* withdrawal whose id is in any client's history is refused as a duplicate
AccountsTransactLedgerWideIds(accs, client_tx) ==
    LET or_default == [c \in (DOMAIN accs) \cup {client_tx.client} |->
                          IF c \in DOMAIN accs THEN accs[c] ELSE DefaultAccount]
        r == Transact(or_default[client_tx.client], client_tx.tx)
    IN  IF /\ client_tx.tx.type = "Change"
           /\ \E c \in DOMAIN accs : ContainsKey(accs[c].history, client_tx.tx.tx_id)
        THEN [accounts |-> or_default,
              res |-> DuplicateTransactionId(client_tx.tx.tx_id)]
        ELSE [accounts |-> [or_default EXCEPT ![client_tx.client] = r.acc],
              res |-> r.res]

\* Accounts::transact: accounts.entry(client).or_default().transact(tx)
AccountsTransact(accs, client_tx) ==
    LET or_default == [c \in (DOMAIN accs) \cup {client_tx.client} |->
                          IF c \in DOMAIN accs THEN accs[c] ELSE DefaultAccount]
        r == Transact(or_default[client_tx.client], client_tx.tx)
    IN  [accounts |-> [or_default EXCEPT ![client_tx.client] = r.acc],
         res |-> r.res]

\* Accounts::get: None for a client without an account
None == [some |-> FALSE]
Some(v) == [some |-> TRUE, value |-> v]
AccountsGet(accs, client_id) ==
    IF client_id \in DOMAIN accs THEN Some(accs[client_id]) ELSE None

\* An input line: a read error, a blank line, or text split at the commas
\* into type, client, tx and amount. A token that does not parse as an
\* unsigned integer, and a negative amount, is written -1; the amount is in
\* ten-thousandths, the unit of Amount.
IoErrorLine == [kind |-> "io_error"]
BlankLine == [kind |-> "blank"]
TextLine(tx_type, client, tx_id, amount) ==
    [kind |-> "text", tx_type |-> tx_type, client |-> client,
     tx_id |-> tx_id, amount |-> amount]
\* the header row "type,client,tx,amount"
HeaderLine == TextLine("type", -1, -1, -1)
\* a line whose text begins with "type" without being the header row
TypedLine == TextLine("typed", 0, 0, 1)

\* str::starts_with
StartsWith(text, prefix) ==
    Len(text) >= Len(prefix) /\ SubSeq(text, 1, Len(prefix)) = prefix

\* main.rs: `line.trim().is_empty() || i == 0 && line.trim().starts_with("type")`;
\* the trimmed line begins with its first field
Skipped(i, line) ==
    \/ line.kind = "blank"
    \/ line.kind = "text" /\ i = 0 /\ StartsWith(line.tx_type, "type")

LedgerAmount == 1..MaxLedgerAmount
LedgerId == 0..MaxLedgerId
\* lines that parse
TransactionLines ==
    {TextLine(t, c, i, a) : t \in {"deposit", "withdrawal"}, c \in ClientId,
                            i \in LedgerId, a \in LedgerAmount}
    \cup {TextLine(t, c, i, 0) : t \in {"dispute", "resolve", "chargeback"},
                                 c \in ClientId, i \in LedgerId}
\* lines that do not: unknown type, bad client id, bad transaction id,
\* negative amount, the header row, and text that only begins like it
MalformedLines ==
    {TextLine("transfer", 0, 0, 1), TextLine("deposit", -1, 0, 1),
     TextLine("dispute", 0, -1, 0), TextLine("withdrawal", 0, 0, -1),
     HeaderLine, TypedLine}

\* ClientTransaction::from_str
ParseOk(client_tx) == [ok |-> TRUE, client_tx |-> client_tx]
ParseErr(e) == [ok |-> FALSE, err |-> e]
FromStr(line) ==
    IF line.client < 0 THEN ParseErr("InvalidClientId")
    ELSE IF line.tx_id < 0 THEN ParseErr("InvalidTransactionId")
    ELSE IF line.tx_type \in {"deposit", "withdrawal"}
         THEN IF line.amount < 0 THEN ParseErr("InvalidAmount")
              ELSE ParseOk([client |-> line.client,
                            tx |-> TxChange(line.tx_id,
                                            IF line.tx_type = "deposit"
                                            THEN "Deposit" ELSE "Withdrawal",
                                            line.amount)])
    ELSE IF line.tx_type = "dispute"
         THEN ParseOk([client |-> line.client, tx |-> TxDispute("Initiate", line.tx_id)])
    ELSE IF line.tx_type = "resolve"
         THEN ParseOk([client |-> line.client, tx |-> TxDispute("Resolve", line.tx_id)])
    ELSE IF line.tx_type = "chargeback"
         THEN ParseOk([client |-> line.client, tx |-> TxDispute("Chargeback", line.tx_id)])
    ELSE ParseErr("InvalidTransactionType")

\* Loop body that returns at a transaction error
ProcessLineStopsOnError(accs, i, line) ==
    IF line.kind = "io_error"
    THEN [accounts |-> accs, status |-> "err", call |-> << >>]
    ELSE IF Skipped(i, line)
    THEN [accounts |-> accs, status |-> "reading", call |-> << >>]
    ELSE LET parsed == FromStr(line)
         IN  IF ~parsed.ok
             THEN [accounts |-> accs, status |-> "err", call |-> << >>]
             ELSE LET r == AccountsTransact(accs, parsed.client_tx)
                  IN  [accounts |-> r.accounts,
                       status |-> IF r.res = Ok THEN "reading" ELSE "err",
                       call |-> <<[client |-> parsed.client_tx.client,
                                   tx |-> parsed.client_tx.tx, res |-> r.res]>>]

\* One iteration of the loop of process_transaction_source on line number
\* i + 1: the ledger after it, whether the function goes on reading or has
\* returned Err, and the call of Accounts::transact it made, if any
ProcessLine(accs, i, line) ==
    IF line.kind = "io_error"
    THEN [accounts |-> accs, status |-> "err", call |-> << >>]
    ELSE IF Skipped(i, line)
    THEN [accounts |-> accs, status |-> "reading", call |-> << >>]
    ELSE LET parsed == FromStr(line)
         IN  IF ~parsed.ok
             THEN [accounts |-> accs, status |-> "err", call |-> << >>]
             ELSE LET r == AccountsTransact(accs, parsed.client_tx)
                  IN  [accounts |-> r.accounts, status |-> "reading",
                       call |-> <<[client |-> parsed.client_tx.client,
                                   tx |-> parsed.client_tx.tx, res |-> r.res]>>]

(***************************************************************************)
(* Account::transact on the full i64 range of Amount.  An Amount(i64) is   *)
(* written [hi, lo] for the integer hi * 2^62 + lo, with lo small: the     *)
(* amounts drawn are 0, 1, 2^62 and i64::MAX = 2 * 2^62 - 1, and sums and  *)
(* differences of a few of them keep that form.                            *)
(***************************************************************************)

I64(hi, lo) == [hi |-> hi, lo |-> lo]
I64Zero == I64(0, 0)
I64Max == I64(2, -1)
WideAmount == {I64Zero, I64(0, 1), I64(1, 0), I64Max}

\* The exact integer sum and difference
Plus(a, b) == I64(a.hi + b.hi, a.lo + b.lo)
Minus(a, b) == I64(a.hi - b.hi, a.lo - b.lo)
\* PartialOrd for Amount (derive): a >= b
Ge(a, b) == a.hi > b.hi \/ (a.hi = b.hi /\ a.lo >= b.lo)
\* -2^63 <= v <= 2^63 - 1
InI64(v) == Ge(v, I64(-2, 0)) /\ Ge(I64Max, v)
\* v modulo 2^64, for v the sum or difference of two i64
Wrap(v) ==
    IF InI64(v) THEN v
    ELSE IF Ge(v, I64Zero) THEN I64(v.hi - 4, v.lo) ELSE I64(v.hi + 4, v.lo)

\* `self.0 += rhs.0` / `self.0 -= rhs.0` on i64: with overflow checks (debug
\* builds) an out-of-range result panics, without them (release builds) it wraps
Arith(v, overflow_checks) ==
    IF InI64(v) THEN [value |-> v, panic |-> FALSE, overflow |-> FALSE]
    ELSE IF overflow_checks THEN [value |-> v, panic |-> TRUE, overflow |-> TRUE]
    ELSE [value |-> Wrap(v), panic |-> FALSE, overflow |-> TRUE]
\* A field the arm leaves alone
Same(v) == [value |-> v, panic |-> FALSE, overflow |-> FALSE]
I64AddAssign(a, b, overflow_checks) == Arith(Plus(a, b), overflow_checks)
I64SubAssign(a, b, overflow_checks) == Arith(Minus(a, b), overflow_checks)

Panic == [tag |-> "Panic"]

\* Account::default()
DefaultWideAccount ==
    [balance |-> I64Zero, held |-> I64Zero, frozen |-> FALSE,
     history |-> [i \in {} |-> [kind |-> "Deposit", amount |-> I64Zero]],
     disputed |-> {}]

\* Two arithmetic steps in a row: first on balance, then on held; the second
\* does not run when the first panics
BalanceThenHeld(self, b, h, res) ==
    IF b.panic
    THEN [acc |-> self, res |-> Panic, overflow |-> TRUE]
    ELSE IF h.panic
    THEN [acc |-> [self EXCEPT !.balance = b.value], res |-> Panic, overflow |-> TRUE]
    ELSE [acc |-> [self EXCEPT !.balance = b.value, !.held = h.value],
          res |-> res, overflow |-> b.overflow \/ h.overflow]

\* Account::transact, arm by arm, with the i64 arithmetic of amount.rs
WideTransact(self, tx, overflow_checks) ==
    LET keep(res) == [acc |-> self, res |-> res, overflow |-> FALSE]
    IN
    IF tx.type = "Change"
    THEN IF ContainsKey(self.history, tx.tx_id)
         THEN keep(DuplicateTransactionId(tx.tx_id))
         ELSE IF tx.change.kind = "Deposit"
         THEN LET b == I64AddAssign(self.balance, tx.change.amount, overflow_checks)
                  r == BalanceThenHeld(self, b, Same(self.held), Ok)
              IN  IF r.res = Ok
                  THEN [r EXCEPT !.acc.history = Insert(@, tx.tx_id, tx.change)]
                  ELSE r
         ELSE IF self.frozen THEN keep(AccountFrozen)
         ELSE IF Ge(self.balance, tx.change.amount)
         THEN LET b == I64SubAssign(self.balance, tx.change.amount, overflow_checks)
                  r == BalanceThenHeld(self, b, Same(self.held), Ok)
              IN  IF r.res = Ok
                  THEN [r EXCEPT !.acc.history = Insert(@, tx.tx_id, tx.change)]
                  ELSE r
         ELSE keep(InsufficentFunds(self.balance, tx.change.amount))
    ELSE IF tx.kind = "Initiate"
    THEN IF IsDepositIn(self.history, tx.tx_id)
         THEN LET amount == self.history[tx.tx_id].amount
                  r == BalanceThenHeld(self,
                          I64SubAssign(self.balance, amount, overflow_checks),
                          I64AddAssign(self.held, amount, overflow_checks), Ok)
              IN  IF r.res = Ok
                  THEN [r EXCEPT !.acc.disputed = @ \cup {tx.tx_id}]
                  ELSE r
         ELSE keep(InvalidDispute)
    ELSE IF tx.kind = "Resolve"
    THEN IF tx.tx_id \in self.disputed
         THEN LET removed == [self EXCEPT !.disputed = @ \ {tx.tx_id}]
              IN  IF IsDepositIn(removed.history, tx.tx_id)
                  THEN LET amount == removed.history[tx.tx_id].amount
                       IN  BalanceThenHeld(removed,
                              I64AddAssign(removed.balance, amount, overflow_checks),
                              I64SubAssign(removed.held, amount, overflow_checks), Ok)
                  ELSE [acc |-> removed, res |-> Ok, overflow |-> FALSE]
         ELSE keep(UndisputedResolve)
    ELSE IF tx.tx_id \in self.disputed
         THEN LET removed == [self EXCEPT !.disputed = @ \ {tx.tx_id}]
              IN  IF IsDepositIn(removed.history, tx.tx_id)
                  THEN LET amount == removed.history[tx.tx_id].amount
                           r == BalanceThenHeld(removed,
                                   Same(removed.balance),
                                   I64SubAssign(removed.held, amount, overflow_checks), Ok)
                       IN  IF r.res = Ok
                           THEN [r EXCEPT !.acc.frozen = TRUE,
                                          !.acc.history = Remove(@, tx.tx_id)]
                           ELSE r
                  ELSE [acc |-> removed, res |-> Ok, overflow |-> FALSE]
         ELSE keep(UndisputedChargback)

VARIABLES
    account,     \* the Account
    steps,       \* number of transactions applied so far
    log,         \* the most recent call, if any: <<[tx, res, before]>>
    applied,     \* ids of the deposits and withdrawals that returned Ok so far
    chargedBack, \* ids of the chargebacks that returned Ok so far
    seen,        \* ChangeSpec: ids used by the transactions applied so far
    deposited,   \* ChangeSpec: sum of the deposit amounts
    withdrawn,   \* ChangeSpec: sum of the amounts of the withdrawals that returned Ok
    accounts,    \* LedgerSpec: the Accounts
    lineNo,      \* LedgerSpec: number of lines read so far
    status,      \* LedgerSpec: "reading", or what the function returned: "ok", "err"
    call,        \* LedgerSpec: the call of Accounts::transact for the last line, if any
    lastLine,    \* LedgerSpec: the last line read, if any
    referenced,  \* LedgerSpec: clients of the transactions parsed so far
    parsed,      \* LedgerSpec: number of lines that parsed as a transaction
    attempts,    \* LedgerSpec: number of calls of Accounts::transact
    replayed,    \* LedgerSpec: the parsed transactions applied in order, errors ignored
    wide,        \* OverflowSpec: the Account, with Amounts over the whole i64 range
    wideSteps,   \* OverflowSpec: number of transactions applied so far
    wideCall,    \* OverflowSpec: the last call, if any: <<[tx, res, overflow]>>
    overflow_checks  \* OverflowSpec: whether the build panics on integer overflow

accountVars == <<account, steps, log, applied, chargedBack, seen, deposited, withdrawn>>
ledgerVars == <<accounts, lineNo, status, call, lastLine, referenced, parsed,
                attempts, replayed>>
wideVars == <<wide, wideSteps, wideCall, overflow_checks>>
vars == <<accountVars, ledgerVars, wideVars>>

InitAccounts ==
    /\ account = DefaultAccount
    /\ steps = 0
    /\ log = << >>
    /\ applied = {}
    /\ chargedBack = {}
    /\ seen = {}
    /\ deposited = 0
    /\ withdrawn = 0
    /\ accounts = DefaultAccounts
    /\ lineNo = 0
    /\ status = "reading"
    /\ call = << >>
    /\ lastLine = << >>
    /\ referenced = {}
    /\ parsed = 0
    /\ attempts = 0
    /\ replayed = DefaultAccounts
    /\ wide = DefaultWideAccount
    /\ wideSteps = 0
    /\ wideCall = << >>

Init == InitAccounts /\ overflow_checks = TRUE

\* Either build: with or without overflow checks
OverflowInit == InitAccounts /\ overflow_checks \in BOOLEAN

\* One call account.transact(tx); the call, its result and the account before
\* it are kept in log.
Call(tx) ==
    /\ steps < MaxSteps
    /\ LET r == Transact(account, tx)
           entry == [tx |-> tx, res |-> r.res, before |-> account]
       IN  /\ account' = r.acc
           /\ log' = <<entry>>
           /\ applied' = IF tx.type = "Change" /\ r.res = Ok
                          THEN applied \cup {tx.tx_id} ELSE applied
           /\ chargedBack' = IF tx.type = "Dispute" /\ tx.kind = "Chargeback" /\ r.res = Ok
                              THEN chargedBack \cup {tx.tx_id} ELSE chargedBack
    /\ steps' = steps + 1
    /\ UNCHANGED <<ledgerVars, wideVars>>

TransactDeposit ==
    /\ \E tx_id \in TransactionId, amount \in Amount : Call(TxDeposit(tx_id, amount))
    /\ UNCHANGED <<seen, deposited, withdrawn>>

TransactWithdrawal ==
    /\ \E tx_id \in TransactionId, amount \in Amount : Call(TxWithdrawal(tx_id, amount))
    /\ UNCHANGED <<seen, deposited, withdrawn>>

TransactInitiate ==
    /\ \E tx_id \in TransactionId : Call(TxDispute("Initiate", tx_id))
    /\ UNCHANGED <<seen, deposited, withdrawn>>

TransactResolve ==
    /\ \E tx_id \in TransactionId : Call(TxDispute("Resolve", tx_id))
    /\ UNCHANGED <<seen, deposited, withdrawn>>

TransactChargeback ==
    /\ \E tx_id \in TransactionId : Call(TxDispute("Chargeback", tx_id))
    /\ UNCHANGED <<seen, deposited, withdrawn>>

Next ==
    \/ TransactDeposit
    \/ TransactWithdrawal
    \/ TransactInitiate
    \/ TransactResolve
    \/ TransactChargeback

Spec == Init /\ [][Next]_vars

\* Runs of deposits and withdrawals only, each with an id no earlier transaction used.
ChangeDeposit ==
    \E tx_id \in (0..MaxChangeId) \ seen, amount \in Amount :
        /\ Call(TxDeposit(tx_id, amount))
        /\ seen' = seen \cup {tx_id}
        /\ deposited' = deposited + amount
        /\ UNCHANGED withdrawn

ChangeWithdrawal ==
    \E tx_id \in (0..MaxChangeId) \ seen, amount \in Amount :
        /\ Call(TxWithdrawal(tx_id, amount))
        /\ seen' = seen \cup {tx_id}
        /\ withdrawn' = withdrawn +
              (IF Transact(account, TxWithdrawal(tx_id, amount)).res = Ok
               THEN amount ELSE 0)
        /\ UNCHANGED deposited

ChangeNext ==
    \/ ChangeDeposit
    \/ ChangeWithdrawal

ChangeSpec == Init /\ [][ChangeNext]_vars

\* process_transaction_source reads the next line of the source.
Read(line) ==
    /\ status = "reading"
    /\ lineNo < MaxLines
    /\ LET r == ProcessLine(accounts, lineNo, line)
           isTx == line.kind = "text" /\ ~Skipped(lineNo, line) /\ FromStr(line).ok
       IN  /\ accounts' = r.accounts
           /\ status' = r.status
           /\ call' = r.call
           /\ attempts' = attempts + Len(r.call)
           /\ parsed' = IF isTx THEN parsed + 1 ELSE parsed
           /\ referenced' = IF isTx THEN referenced \cup {FromStr(line).client_tx.client}
                            ELSE referenced
           /\ replayed' = IF isTx
                          THEN AccountsTransact(replayed, FromStr(line).client_tx).accounts
                          ELSE replayed
    /\ lineNo' = lineNo + 1
    /\ lastLine' = <<line>>

ReadTransactionLine ==
    /\ \E line \in TransactionLines : Read(line)
    /\ UNCHANGED <<accountVars, wideVars>>

ReadMalformedLine ==
    /\ \E line \in MalformedLines : Read(line)
    /\ UNCHANGED <<accountVars, wideVars>>

ReadBlankLine ==
    /\ Read(BlankLine)
    /\ UNCHANGED <<accountVars, wideVars>>

ReadIoError ==
    /\ Read(IoErrorLine)
    /\ UNCHANGED <<accountVars, wideVars>>

\* The source is exhausted: the loop ends and the function returns Ok(()).
EndOfInput ==
    /\ status = "reading"
    /\ status' = "ok"
    /\ UNCHANGED <<accounts, lineNo, call, lastLine, referenced, parsed,
                   attempts, replayed>>
    /\ UNCHANGED <<accountVars, wideVars>>

LedgerNext ==
    \/ ReadTransactionLine
    \/ ReadMalformedLine
    \/ ReadBlankLine
    \/ ReadIoError
    \/ EndOfInput

LedgerSpec == Init /\ [][LedgerNext]_vars

\* One call account.transact(tx) with amounts from the whole i64 range; a
\* panic ends the run.
WideCall(tx) ==
    /\ wideSteps < MaxWideSteps
    /\ \A c \in DOMAIN wideCall : wideCall[c].res /= Panic
    /\ LET r == WideTransact(wide, tx, overflow_checks)
       IN  /\ wide' = r.acc
           /\ wideCall' = <<[tx |-> tx, res |-> r.res, overflow |-> r.overflow]>>
    /\ wideSteps' = wideSteps + 1
    /\ UNCHANGED overflow_checks

WideDeposit ==
    /\ \E tx_id \in TransactionId, amount \in WideAmount :
          WideCall([type |-> "Change", tx_id |-> tx_id,
                    change |-> [kind |-> "Deposit", amount |-> amount]])
    /\ UNCHANGED <<accountVars, ledgerVars>>

WideWithdrawal ==
    /\ \E tx_id \in TransactionId, amount \in WideAmount :
          WideCall([type |-> "Change", tx_id |-> tx_id,
                    change |-> [kind |-> "Withdrawal", amount |-> amount]])
    /\ UNCHANGED <<accountVars, ledgerVars>>

WideInitiate ==
    /\ \E tx_id \in TransactionId : WideCall(TxDispute("Initiate", tx_id))
    /\ UNCHANGED <<accountVars, ledgerVars>>

WideResolve ==
    /\ \E tx_id \in TransactionId : WideCall(TxDispute("Resolve", tx_id))
    /\ UNCHANGED <<accountVars, ledgerVars>>

WideChargeback ==
    /\ \E tx_id \in TransactionId : WideCall(TxDispute("Chargeback", tx_id))
    /\ UNCHANGED <<accountVars, ledgerVars>>

OverflowNext ==
    \/ WideDeposit
    \/ WideWithdrawal
    \/ WideInitiate
    \/ WideResolve
    \/ WideChargeback

OverflowSpec == OverflowInit /\ [][OverflowNext]_vars

\* The most recent call
Called == Len(log) > 0
Last == log[1]

IsInitiate(tx, tx_id) == tx = TxDispute("Initiate", tx_id)
IsResolve(tx, tx_id) == tx = TxDispute("Resolve", tx_id)
IsChargeback(tx, tx_id) == tx = TxDispute("Chargeback", tx_id)
IsWithdrawal(tx) == tx.type = "Change" /\ tx.change.kind = "Withdrawal"
IsDeposit(tx) == tx.type = "Change" /\ tx.change.kind = "Deposit"

\* id is a deposit recorded in history and not under dispute
Disputable(self, tx_id) ==
    IsDepositIn(self.history, tx_id) /\ tx_id \notin self.disputed

(***************************************************************************)
(* Properties of Account::transact                                        *)
(***************************************************************************)

\* C1: a call of transact that returns an error leaves the account (balance,
\* held, frozen, history, disputed) exactly as it was before the call.
AllOrNothing ==
    (Called /\ Last.res /= Ok) =>
        /\ Last.res.tag \in {"DuplicateTransactionId", "AccountFrozen",
                             "InsufficentFunds", "InvalidDispute",
                             "UndisputedResolve", "UndisputedChargback"}
        /\ account = Last.before

\* A withdrawal was refused for insufficient funds on an account that has
\* funds held, a history and an open dispute.
AllOrNothingWitness ==
    /\ Called
    /\ Last.res.tag = "InsufficentFunds"
    /\ Last.before.held > 0
    /\ Last.before.disputed /= {}
    /\ account = Last.before

\* C2: once a deposit or withdrawal with id i has returned Ok, every later
\* deposit or withdrawal with id i fails with DuplicateTransactionId and
\* leaves the account as it was.
DuplicateAlwaysRejected ==
    [][\A tx_id \in TransactionId :
          (/\ steps' = steps + 1
           /\ Last'.tx.type = "Change"
           /\ Last'.tx.tx_id = tx_id
           /\ tx_id \in applied)
          => (Last'.res = DuplicateTransactionId(tx_id) /\ account' = account)]_vars

\* C3: a dispute of an id that is already in disputed fails with
\* InvalidDispute and changes nothing.
DoubleDisputeRejected ==
    \A tx_id \in TransactionId :
        (/\ Called
         /\ IsInitiate(Last.tx, tx_id)
         /\ tx_id \in Last.before.disputed)
        => (Last.res = InvalidDispute /\ account = Last.before)

\* C4: balance (available) and held are never negative.
NonNegativeBalances ==
    account.balance >= 0 /\ account.held >= 0

\* C5 as stated: a withdrawal on a frozen account fails with AccountFrozen,
\* whatever its id and amount, and leaves balance and held unchanged.
FrozenWithdrawalAccountFrozen ==
    (/\ Called
     /\ IsWithdrawal(Last.tx)
     /\ Last.before.frozen)
    => /\ Last.res = AccountFrozen
       /\ account.balance = Last.before.balance
       /\ account.held = Last.before.held

\* C5 amended: a withdrawal on a frozen account always fails and leaves the
\* account unchanged; the error is DuplicateTransactionId when its id is a
\* key of history and AccountFrozen otherwise.
FrozenWithdrawalFails ==
    (/\ Called
     /\ IsWithdrawal(Last.tx)
     /\ Last.before.frozen)
    => /\ Last.res = (IF ContainsKey(Last.before.history, Last.tx.tx_id)
                      THEN DuplicateTransactionId(Last.tx.tx_id)
                      ELSE AccountFrozen)
       /\ account = Last.before

\* A frozen account refused a withdrawal, with an unused id, of funds it has.
FrozenWithdrawalWitness ==
    /\ Called
    /\ IsWithdrawal(Last.tx)
    /\ Last.before.frozen
    /\ Last.res = AccountFrozen
    /\ Last.tx.change.amount > 0
    /\ Last.before.balance >= Last.tx.change.amount

\* Dispute(tx_id) then Resolve(tx_id) applied to an account
DisputeThenResolve(self, tx_id) ==
    LET d == Transact(self, TxDispute("Initiate", tx_id))
        r == Transact(d.acc, TxDispute("Resolve", tx_id))
    IN  [dispute |-> d.res, resolve |-> r.res, acc |-> r.acc]

\* C6: in every reachable account, for an id that is a deposit in history and
\* not disputed, Dispute then Resolve both succeed and restore balance, held
\* and disputed, with frozen and history unchanged; and a Resolve that returns
\* Ok in a run undoes on balance and held what the dispute of that deposit did.
DisputeResolveRoundTrip ==
    /\ \A tx_id \in TransactionId :
          Disputable(account, tx_id)
          => DisputeThenResolve(account, tx_id) =
                [dispute |-> Ok, resolve |-> Ok, acc |-> account]
    /\ \A tx_id \in TransactionId :
          (Called /\ IsResolve(Last.tx, tx_id) /\ Last.res = Ok)
          => /\ Disputable(account, tx_id)
             /\ Transact(account, TxDispute("Initiate", tx_id)).acc.balance
                   = Last.before.balance
             /\ Transact(account, TxDispute("Initiate", tx_id)).acc.held
                   = Last.before.held
             /\ account.frozen = Last.before.frozen
             /\ account.history = Last.before.history

\* A disputed deposit of a positive amount was resolved on an account that is
\* not frozen and has other funds held; the deposit is disputable again.
DisputeResolveWitness ==
    \E tx_id \in TransactionId :
        /\ Called
        /\ IsResolve(Last.tx, tx_id)
        /\ Last.res = Ok
        /\ tx_id \in Last.before.disputed
        /\ Disputable(account, tx_id)
        /\ account.history[tx_id].amount > 0
        /\ account.held > 0
        /\ account.disputed /= {}
        /\ ~account.frozen

\* Dispute(tx_id), Chargeback(tx_id), then the transaction next, applied to an account
DisputeChargebackThen(self, tx_id, next) ==
    LET d == Transact(self, TxDispute("Initiate", tx_id))
        c == Transact(d.acc, TxDispute("Chargeback", tx_id))
        n == Transact(c.acc, next)
    IN  [dispute |-> d, chargeback |-> c, then |-> n]

\* What C7 says of Dispute(tx_id), Chargeback(tx_id) applied to pre, where d
\* and c are the two calls' outcomes ([acc, res])
ChargedBack(pre, tx_id, d, c) ==
    LET amt == pre.history[tx_id].amount
    IN  /\ d.res = Ok
        /\ c.res = Ok
        /\ c.acc.frozen
        /\ d.acc.held = pre.held + amt
        /\ c.acc.held = pre.held
        /\ c.acc.balance = pre.balance - amt
        /\ tx_id \notin c.acc.disputed
        /\ ~ContainsKey(c.acc.history, tx_id)

\* C7: in every reachable account, for a deposit id in history and not
\* disputed, Dispute then Chargeback freezes the account, leaves held at its
\* pre-dispute value and balance at the pre-dispute balance minus the amount,
\* removes the id from disputed and history, and a Chargeback or Dispute of
\* the id right after fails and leaves balance and held alone.
DisputeChargeback ==
    \A tx_id \in TransactionId :
        Disputable(account, tx_id)
        => \A kind \in {"Chargeback", "Initiate"} :
              LET t == DisputeChargebackThen(account, tx_id, TxDispute(kind, tx_id))
              IN  /\ ChargedBack(account, tx_id, t.dispute, t.chargeback)
                  /\ t.then.res = (IF kind = "Chargeback"
                                   THEN UndisputedChargback ELSE InvalidDispute)
                  /\ t.then.acc.balance = t.chargeback.acc.balance
                  /\ t.then.acc.held = t.chargeback.acc.held

\* A dispute of a charged-back id was refused on the frozen account the
\* chargeback left, which still has a deposit that can be disputed.
DisputeChargebackWitness ==
    \E tx_id \in TransactionId :
        /\ Called
        /\ IsInitiate(Last.tx, tx_id)
        /\ Last.res = InvalidDispute
        /\ tx_id \in chargedBack
        /\ ~ContainsKey(account.history, tx_id)
        /\ account.frozen
        /\ \E other \in TransactionId :
              Disputable(account, other) /\ account.history[other].amount > 0

\* C8: after deposits and withdrawals with pairwise distinct ids applied to a
\* default account, total equals the deposits minus the withdrawals that
\* returned Ok, and held is 0.
TotalAccounting ==
    /\ Total(account) = deposited - withdrawn
    /\ account.held = 0

\* After deposits and a withdrawal that went through, a withdrawal was refused.
TotalAccountingWitness ==
    /\ Called
    /\ withdrawn > 0
    /\ deposited > withdrawn
    /\ IsWithdrawal(Last.tx)
    /\ Last.res.tag = "InsufficentFunds"

\* C9: frozen is false until the first chargeback that returns Ok, true from
\* that call on, and no call resets it.
FrozenOnlyByChargeback ==
    /\ account.frozen <=> (chargedBack /= {})
    /\ Called =>
          /\ Last.before.frozen => account.frozen
          /\ (account.frozen /\ ~Last.before.frozen)
                => (Last.tx.type = "Dispute" /\ Last.tx.kind = "Chargeback"
                    /\ Last.res = Ok)
          /\ (Last.tx.type = "Dispute" /\ Last.tx.kind = "Chargeback" /\ Last.res = Ok)
                => account.frozen

\* A deposit returned Ok on an account an earlier chargeback froze, and the
\* account is still frozen.
FrozenWitness ==
    /\ Called
    /\ Last.before.frozen
    /\ IsDeposit(Last.tx)
    /\ Last.res = Ok
    /\ Last.tx.change.amount > 0
    /\ account.frozen

\* C10: Resolve(id) returns Ok exactly when id is in disputed and
\* UndisputedResolve otherwise; Chargeback(id) returns Ok exactly when id is in
\* disputed and UndisputedChargback otherwise; a refused call leaves the
\* account unchanged.
ResolutionIffDisputed ==
    \A tx_id \in TransactionId :
        /\ (Called /\ IsResolve(Last.tx, tx_id))
              => /\ (Last.res = Ok) <=> (tx_id \in Last.before.disputed)
                 /\ Last.res /= Ok
                       => (Last.res = UndisputedResolve /\ account = Last.before)
        /\ (Called /\ IsChargeback(Last.tx, tx_id))
              => /\ (Last.res = Ok) <=> (tx_id \in Last.before.disputed)
                 /\ Last.res /= Ok
                       => (Last.res = UndisputedChargback /\ account = Last.before)

\* A Resolve of a deposit that is in history but not disputed was refused
\* while another deposit is under dispute.
ResolutionWitness ==
    \E tx_id \in TransactionId :
        /\ Called
        /\ IsResolve(Last.tx, tx_id)
        /\ Last.res = UndisputedResolve
        /\ IsDepositIn(account.history, tx_id)
        /\ account.disputed /= {}
        /\ account.held > 0

\* C11: Dispute(id) fails with InvalidDispute and changes nothing when id is
\* not a key of history or history[id] is a withdrawal; when history[id] is a
\* deposit that is not disputed it returns Ok, with balance decreased and held
\* increased by the deposit's amount and id added to disputed.
OnlyDepositsDisputable ==
    \A tx_id \in TransactionId :
        (Called /\ IsInitiate(Last.tx, tx_id)) =>
            /\ (~ContainsKey(Last.before.history, tx_id)
                  \/ Last.before.history[tx_id].kind = "Withdrawal")
               => (Last.res = InvalidDispute /\ account = Last.before)
            /\ Disputable(Last.before, tx_id)
               => /\ Last.res = Ok
                  /\ account = [Last.before EXCEPT
                        !.balance = @ - Last.before.history[tx_id].amount,
                        !.held = @ + Last.before.history[tx_id].amount,
                        !.disputed = @ \cup {tx_id}]

\* The dispute of a recorded withdrawal was refused.
OnlyDepositsDisputableWitness ==
    \E tx_id \in TransactionId :
        /\ Called
        /\ IsInitiate(Last.tx, tx_id)
        /\ ContainsKey(Last.before.history, tx_id)
        /\ Last.before.history[tx_id].kind = "Withdrawal"
        /\ Last.before.history[tx_id].amount > 0
        /\ Last.res = InvalidDispute

\* C12: a withdrawal fails with DuplicateTransactionId when its id is in
\* history, else with AccountFrozen when the account is frozen, else it
\* returns Ok exactly when balance >= amount: then balance decreases by the
\* amount, held is unchanged and history[id] is Withdrawal(amount); otherwise it
\* fails with InsufficentFunds { current: balance, requested: amount }.
WithdrawalOutcome ==
    (Called /\ IsWithdrawal(Last.tx)) =>
        LET pre == Last.before
            tx_id == Last.tx.tx_id
            amt == Last.tx.change.amount
        IN  /\ Last.res =
                  (IF ContainsKey(pre.history, tx_id) THEN DuplicateTransactionId(tx_id)
                   ELSE IF pre.frozen THEN AccountFrozen
                   ELSE IF pre.balance >= amt THEN Ok
                   ELSE InsufficentFunds(pre.balance, amt))
            /\ Last.res = Ok =>
                  /\ account.balance = pre.balance - amt
                  /\ account.held = pre.held
                  /\ ContainsKey(account.history, tx_id)
                  /\ account.history[tx_id] = [kind |-> "Withdrawal", amount |-> amt]
            /\ Last.res /= Ok => account = pre

\* A withdrawal with an unused id of more than the positive balance of an
\* account that is not frozen was refused.
WithdrawalOutcomeWitness ==
    /\ Called
    /\ IsWithdrawal(Last.tx)
    /\ ~Last.before.frozen
    /\ Last.before.balance > 0
    /\ Last.res = InsufficentFunds(Last.before.balance, Last.tx.change.amount)
    /\ DOMAIN Last.before.history /= {}

\* C13: a deposit with an id that is not in history returns Ok, frozen
\* account or not, adds the amount to balance, records history[id] =
\* Deposit(amount) and leaves held, frozen and disputed unchanged.
DepositNeverBlocked ==
    (Called /\ IsDeposit(Last.tx) /\ ~ContainsKey(Last.before.history, Last.tx.tx_id)) =>
        /\ Last.res = Ok
        /\ account = [Last.before EXCEPT
              !.balance = @ + Last.tx.change.amount,
              !.history = Insert(@, Last.tx.tx_id,
                                 [kind |-> "Deposit", amount |-> Last.tx.change.amount])]

\* A frozen account that already has a recorded transaction took a deposit.
DepositNeverBlockedWitness ==
    /\ Called
    /\ IsDeposit(Last.tx)
    /\ Last.before.frozen
    /\ DOMAIN Last.before.history /= {}
    /\ Last.res = Ok
    /\ account.balance = Last.before.balance + MaxAmount

\* C16: after Chargeback(id) has returned Ok, no later Dispute(id),
\* Resolve(id) or Chargeback(id) returns Ok.
ChargedBackIsTerminal ==
    [][\A tx_id \in TransactionId :
          (/\ steps' = steps + 1
           /\ Last'.tx.type = "Dispute"
           /\ Last'.tx.tx_id = tx_id
           /\ tx_id \in chargedBack)
          => Last'.res /= Ok]_vars

\* C18: while an id is a key of history its entry never changes; an entry is
\* added only by a deposit or withdrawal that returns Ok for an id that was
\* absent, and removed only by a chargeback of that id that returns Ok;
\* Dispute and Resolve leave history unchanged.
HistoryNeverOverwritten ==
    Called =>
        /\ \A tx_id \in (DOMAIN Last.before.history) \cap (DOMAIN account.history) :
              account.history[tx_id] = Last.before.history[tx_id]
        /\ \A tx_id \in (DOMAIN account.history) \ (DOMAIN Last.before.history) :
              /\ Last.tx.type = "Change"
              /\ Last.tx.tx_id = tx_id
              /\ Last.res = Ok
              /\ account.history[tx_id] = Last.tx.change
        /\ \A tx_id \in (DOMAIN Last.before.history) \ (DOMAIN account.history) :
              IsChargeback(Last.tx, tx_id) /\ Last.res = Ok
        /\ (Last.tx.type = "Dispute" /\ Last.tx.kind \in {"Initiate", "Resolve"})
              => account.history = Last.before.history

\* A deposit or withdrawal that reuses a recorded id with another kind or
\* amount was refused and the recorded entry is still there.
HistoryNeverOverwrittenWitness ==
    /\ Called
    /\ Last.tx.type = "Change"
    /\ ContainsKey(Last.before.history, Last.tx.tx_id)
    /\ Last.before.history[Last.tx.tx_id] /= Last.tx.change
    /\ Last.res = DuplicateTransactionId(Last.tx.tx_id)
    /\ account.history = Last.before.history

\* Sum of the amounts of the entries of history, among ids, of the given kind
RECURSIVE SumAmounts(_, _, _)
SumAmounts(history, ids, kind) ==
    IF ids = {} THEN 0
    ELSE LET tx_id == CHOOSE i \in ids : TRUE
         IN  (IF ContainsKey(history, tx_id) /\ history[tx_id].kind = kind
              THEN history[tx_id].amount ELSE 0)
             + SumAmounts(history, ids \ {tx_id}, kind)

\* C19: held equals the sum of the amounts of the history entries whose ids are
\* in disputed (so held = 0 when disputed is empty), and balance + held equals
\* the deposits still in history minus the withdrawals applied.
HeldMatchesDisputes ==
    /\ account.held = SumAmounts(account.history, account.disputed, "Deposit")
                      + SumAmounts(account.history, account.disputed, "Withdrawal")
    /\ account.disputed = {} => account.held = 0
    /\ Total(account) = SumAmounts(account.history, DOMAIN account.history, "Deposit")
                        - SumAmounts(account.history, DOMAIN account.history, "Withdrawal")

\* C20: every id in disputed is a key of history whose entry is a deposit, so
\* a Resolve or Chargeback that returns Ok finds the deposit and moves its
\* amount (Resolve from held to balance; Chargeback out of held, freezing the
\* account and removing the entry).
DisputedAreDeposits ==
    /\ \A tx_id \in account.disputed : IsDepositIn(account.history, tx_id)
    /\ \A tx_id \in TransactionId :
          (Called /\ IsResolve(Last.tx, tx_id) /\ Last.res = Ok)
          => /\ IsDepositIn(Last.before.history, tx_id)
             /\ account.balance = Last.before.balance + Last.before.history[tx_id].amount
             /\ account.held = Last.before.held - Last.before.history[tx_id].amount
    /\ \A tx_id \in TransactionId :
          (Called /\ IsChargeback(Last.tx, tx_id) /\ Last.res = Ok)
          => /\ IsDepositIn(Last.before.history, tx_id)
             /\ account.held = Last.before.held - Last.before.history[tx_id].amount
             /\ account.frozen
             /\ ~ContainsKey(account.history, tx_id)

\* A chargeback took a positive amount out of held while another deposit
\* stays under dispute.
DisputedAreDepositsWitness ==
    \E tx_id \in TransactionId :
        /\ Called
        /\ IsChargeback(Last.tx, tx_id)
        /\ Last.res = Ok
        /\ Last.before.history[tx_id].amount > 0
        /\ account.disputed /= {}
        /\ account.held > 0

(***************************************************************************)
(* Properties of Accounts and process_transaction_source                  *)
(***************************************************************************)

\* The account Accounts::transact works on for a client: the client's, or a
\* default one
EntryOrDefault(accs, client) ==
    IF client \in DOMAIN accs THEN accs[client] ELSE DefaultAccount

\* C14: Accounts::transact for client c creates a default account for c if
\* there is none (also when the transaction then fails), applies the
\* transaction to that account and returns its result; the other accounts are
\* unchanged and no account is removed; get(c) is None exactly for the
\* clients no transaction has referenced.
LedgerRouting ==
    /\ [](/\ DOMAIN accounts = referenced
          /\ \A c \in ClientId : (AccountsGet(accounts, c) = None) <=> (c \notin referenced)
          /\ \A c \in referenced : AccountsGet(accounts, c) = Some(accounts[c]))
    /\ [][/\ (DOMAIN accounts) \subseteq (DOMAIN accounts')
          /\ attempts' = attempts + 1 =>
                LET c == call'[1].client
                    r == Transact(EntryOrDefault(accounts, c), call'[1].tx)
                IN  /\ DOMAIN accounts' = (DOMAIN accounts) \cup {c}
                    /\ accounts'[c] = r.acc
                    /\ call'[1].res = r.res
                    /\ \A d \in (DOMAIN accounts) \ {c} : accounts'[d] = accounts[d]
          /\ attempts' = attempts => accounts' = accounts]_vars

\* The first transaction of a client failed and left it a default account,
\* while another client's account holds funds.
LedgerRoutingWitness ==
    /\ call /= << >>
    /\ call[1].res /= Ok
    /\ call[1].client \in DOMAIN accounts
    /\ accounts[call[1].client] = DefaultAccount
    /\ \E d \in DOMAIN accounts : d /= call[1].client /\ accounts[d].balance > 0

\* The last line read is one that stops the function: a read error, or text
\* that is not skipped as a header on line 1 and does not parse.
LastLineFatal ==
    /\ lastLine /= << >>
    /\ \/ lastLine[1].kind = "io_error"
       \/ /\ lastLine[1].kind = "text"
          /\ ~Skipped(lineNo - 1, lastLine[1])
          /\ ~FromStr(lastLine[1]).ok

\* C15: every parsed transaction is attempted once, in input order; a
\* transaction error does not stop the function, so the ledger is the parsed
\* transactions applied in order with errors ignored; only a read or parse
\* failure makes the function return Err, with the effects of the
\* transactions before it in place.
ErrorsDoNotStopIngestion ==
    /\ attempts = parsed
    /\ accounts = replayed
    /\ (status = "err") <=> LastLineFatal
    /\ (call /= << >> /\ call[1].res /= Ok) => status /= "err"

\* A transaction returned Ok after an earlier transaction of another client
\* had failed, and the function is still reading.
ErrorsDoNotStopIngestionWitness ==
    /\ status = "reading"
    /\ call /= << >>
    /\ call[1].res = Ok
    /\ \E c \in DOMAIN accounts : c /= call[1].client /\ accounts[c] = DefaultAccount
    /\ accounts[call[1].client].balance > 0

\* C17: with non-negative amounts, every call of transact returns Ok or a
\* TransactionError, and the arithmetic on balance and held never leaves the
\* i64 range.
NoOverflow ==
    /\ \A c \in DOMAIN wideCall :
          /\ wideCall[c].res /= Panic
          /\ ~wideCall[c].overflow
    /\ InI64(wide.balance)
    /\ InI64(wide.held)

\* C21: transaction ids are scoped per client.  A deposit or withdrawal of
\* client B is refused as a duplicate exactly when its id is in B's own
\* history, whatever ids the other clients have used; a dispute, resolve or
\* chargeback under B of an id that is not in B's own history fails with
\* InvalidDispute, UndisputedResolve or UndisputedChargback respectively and
\* leaves B's account as it was; and no call under B changes any field of
\* another client's account.
IdsScopedPerClient ==
    [][attempts' = attempts + 1 =>
          LET b == call'[1].client
              tx == call'[1].tx
              res == call'[1].res
              own == EntryOrDefault(accounts, b)
          IN  /\ tx.type = "Change" =>
                    ((res = DuplicateTransactionId(tx.tx_id))
                         <=> ContainsKey(own.history, tx.tx_id))
              /\ (tx.type = "Dispute" /\ ~ContainsKey(own.history, tx.tx_id)) =>
                    /\ res = CASE tx.kind = "Initiate" -> InvalidDispute
                               [] tx.kind = "Resolve" -> UndisputedResolve
                               [] tx.kind = "Chargeback" -> UndisputedChargback
                    /\ accounts'[b] = own
              /\ \A a \in (DOMAIN accounts) \ {b} :
                    /\ a \in DOMAIN accounts'
                    /\ accounts'[a].balance = accounts[a].balance
                    /\ accounts'[a].held = accounts[a].held
                    /\ accounts'[a].frozen = accounts[a].frozen
                    /\ accounts'[a].history = accounts[a].history
                    /\ accounts'[a].disputed = accounts[a].disputed]_vars

\* Client A has a deposit under dispute, and the last call, a resolve of the
\* same id sent under another client B, failed: A's funds are still held.
IdsScopedPerClientWitness ==
    /\ call /= << >>
    /\ call[1].tx.type = "Dispute"
    /\ call[1].tx.kind = "Resolve"
    /\ call[1].res = UndisputedResolve
    /\ \E a \in DOMAIN accounts :
          /\ a /= call[1].client
          /\ call[1].tx.tx_id \in accounts[a].disputed
          /\ IsDepositIn(accounts[a].history, call[1].tx.tx_id)
          /\ accounts[a].held > 0
    /\ accounts[call[1].client] = DefaultAccount

====
